---- MODULE Spec2Model ----
(***************************************************************************)
(* The slash-command handlers of pybot/endpoints/slack/commands.py and the *)
(* catch_slack_error wrapper around each of them.                          *)
(*                                                                         *)
(* Every invocation is an asyncio task.  A task runs without interruption  *)
(* from one await to the next, so one action is: the code between two      *)
(* awaits together with the external call it ends in and that call's       *)
(* outcome.  Tasks of different invocations interleave at the awaits.      *)
(* Strings the code parses are sequences of one-character strings; the     *)
(* messages it formats are records naming the template and its arguments.  *)
(***************************************************************************)
EXTENDS Integers, Sequences, FiniteSets, TLC

VARIABLES
    tasks,   \* the invocations received so far, in order of arrival
    clock    \* the chat platform's message clock: the last "ts" it assigned

vars == <<tasks, clock>>

----------------------------------------------------------------------------
(* Bounds of the model *)

MaxInv == 2        \* invocations received in one behaviour (Spec)
MaxConc == 2       \* invocations received in one behaviour (SpecConc)
MaxLen == 4        \* length of an enumerated /roll text (SpecRoll)
MaxResults == 1    \* businesses in a restaurant-search response

(* Program constants *)

MaxDice == 10
MaxSides == 20
ErrorStatus == 400

MODERATOR_CHANNEL == "G_MODS"

----------------------------------------------------------------------------
(* Strings *)

Digits == {"0", "1", "2", "3", "4", "5", "6", "7", "8", "9"}

DigitVal(c) ==
    CASE c = "0" -> 0 [] c = "1" -> 1 [] c = "2" -> 2 [] c = "3" -> 3
      [] c = "4" -> 4 [] c = "5" -> 5 [] c = "6" -> 6 [] c = "7" -> 7
      [] c = "8" -> 8 [] c = "9" -> 9

\* str.lower(), on the letters the inputs use
LowerChar(c) ==
    CASE c = "D" -> "d" [] c = "X" -> "x" [] OTHER -> c

Lower(s) == [i \in 1..Len(s) |-> LowerChar(s[i])]

\* str.split(sep): the parts between the occurrences of sep, empty parts kept
RECURSIVE Split(_, _)
Split(s, sep) ==
    IF \A i \in 1..Len(s) : s[i] # sep
    THEN <<s>>
    ELSE LET i == CHOOSE k \in 1..Len(s) :
                     s[k] = sep /\ \A j \in 1..(k - 1) : s[j] # sep
         IN <<SubSeq(s, 1, i - 1)>> \o Split(SubSeq(s, i + 1, Len(s)), sep)

RECURSIVE Number(_)
Number(s) ==
    IF s = <<>> THEN 0
    ELSE 10 * Number(SubSeq(s, 1, Len(s) - 1)) + DigitVal(s[Len(s)])

\* int(s): an optional sign and at least one decimal digit, ValueError
\* otherwise.  (int also strips blanks and takes "+" and "_"; the inputs
\* hold none of them.)
PyInt(s) ==
    LET neg == Len(s) > 0 /\ s[1] = "-"
        body == IF neg THEN Tail(s) ELSE s
    IN IF body # <<>> /\ \A i \in 1..Len(body) : body[i] \in Digits
       THEN [ok |-> TRUE, val |-> IF neg THEN 0 - Number(body) ELSE Number(body)]
       ELSE [ok |-> FALSE, val |-> 0]

----------------------------------------------------------------------------
(* slash_roll's parsing and sampling *)

\* a comparison that lets zero dice through
NumDiceInvalidBelowZero(numdice) == numdice < 0 \/ numdice > MaxDice

NumDiceInvalid(numdice) == numdice <= 0 \/ numdice > MaxDice

TypeDiceInvalid(typedice) == typedice <= 0 \/ typedice > MaxSides

ValueError == [ok |-> FALSE, numdice |-> 0, typedice |-> 0]

\* the try block: ok = FALSE is a ValueError raised anywhere in it
ParseRoll(text) ==
    LET parts == Split(Lower(text), "d")
    IN IF Len(parts) # 2 THEN ValueError
       ELSE LET n == PyInt(parts[1])
                s == PyInt(parts[2])
            IN IF ~n.ok \/ ~s.ok THEN ValueError
               ELSE IF NumDiceInvalid(n.val) \/ TypeDiceInvalid(s.val)
                    THEN ValueError
                    ELSE [ok |-> TRUE, numdice |-> n.val, typedice |-> s.val]

\* random.randint(1, typedice + 1): both ends included
RandInt(typedice) == 1..(typedice + 1)

\* a loop that starts at 1: one sample short
DiceListsOneShort(numdice, typedice) == [1..(numdice - 1) -> 1..(typedice + 1)]

\* the lists the loop can append together: range(0, numdice) samples
DiceLists(numdice, typedice) == [1..numdice -> RandInt(typedice)]

----------------------------------------------------------------------------
(* Commands, external calls and tasks *)

Registered == {"/here", "/lunch", "/repeat", "/report", "/ticket", "/roll"}

\* slash_mentor is defined and wrapped but its registration is commented out
Handlers == Registered \cup {"/mentor"}

Command(command, user_id, channel_id, text) ==
    [command |-> command, user_id |-> user_id, channel_id |-> channel_id,
     text |-> text, trigger_id |-> "TRIGGER"]

PostMessage == "chat.postMessage"
PostEphemeral == "chat.postEphemeral"
UsersInfo == "users.info"
DialogOpen == "dialog.open"
ConversationsMembers == "conversations.members"

NoText == [tpl |-> "none"]

\* an external call and its outcome; "None" and 0 stand for an absent argument
Call(api, method) ==
    [api |-> api, method |-> method, channel |-> "None", user |-> "None",
     text |-> NoText, thread_ts |-> 0, extra |-> "None",
     ok |-> TRUE, status |-> 0, count |-> 0, ts |-> 0]

\* the platform's answer to a query: a failure is a SlackAPIError; a posted
\* message gets the next timestamp
Reply(c, ok) ==
    [c EXCEPT !.ok = ok,
              !.ts = IF ok /\ c.method = PostMessage THEN clock + 1 ELSE 0]

NewTask(command) ==
    [command |-> command, pc |-> "start", calls |-> <<>>,
     result |-> "running", loc |-> 0]

Sent(t, c) == [t EXCEPT !.calls = Append(@, c)]

----------------------------------------------------------------------------
(* catch_slack_error *)

\* a bare except: every exception is caught
CaughtAny(exc) == TRUE

\* except SlackAPIError: the one exception class the wrapper catches
Caught(exc) == exc = "SlackAPIError"

\* func returned: the wrapper returns
Return(t) == [t EXCEPT !.pc = "done", !.result = "returned"]

\* a handler that is run again when it raises
RaiseRetry(t, exc) == [t EXCEPT !.pc = "start", !.loc = 0]

\* exc raised while func runs: into the except clause, or out of the wrapper
Raise(t, exc) ==
    IF Caught(exc)
    THEN [t EXCEPT !.pc = "catch"]
    ELSE [t EXCEPT !.pc = "done", !.result = exc]

\* a failed query that is passed over in silence
QuerySwallowed(t, c, next) == IF c.ok THEN next ELSE Return(Sent(t, c))

\* a chat-platform query made by func, answered c; next is func's state
\* after a successful answer
Query(t, c, next) ==
    IF c.ok THEN next ELSE Raise(Sent(t, c), "SlackAPIError")

\* a fallback that names the user where the channel belongs
FallbackTextNamesUser(command) ==
    [tpl |-> "could_not_post", command |-> command.command,
     channel |-> command.user_id]

FallbackText(command) ==
    [tpl |-> "could_not_post", command |-> command.command,
     channel |-> command.channel_id]

FallbackCall(command) ==
    [Call("slack", PostEphemeral) EXCEPT
        !.user = command.user_id, !.channel = command.user_id,
        !.extra = "as_user", !.text = FallbackText(command)]

\* task i takes a step that ends in call c and leaves it as next
Step(i, c, next) ==
    /\ tasks' = [tasks EXCEPT ![i] = next]
    /\ clock' = IF c.ts > 0 THEN c.ts ELSE clock

\* the except clause: the fallback post is outside any try, its failure
\* leaves the wrapper
catch_slack_error(i) ==
    /\ tasks[i].pc = "catch"
    /\ \E ok \in BOOLEAN :
         LET t == tasks[i]
             c == Reply(FallbackCall(t.command), ok)
         IN Step(i, c, IF ok THEN Return(Sent(t, c))
                       ELSE [Sent(t, c) EXCEPT !.pc = "done",
                                               !.result = "SlackAPIError"])

----------------------------------------------------------------------------
(* slash_report *)

ReportText(command) ==
    [tpl |-> "sent_report", user |-> command.user_id, text |-> command.text]

\* a report posted where the command was given
ReportCallToInvokingChannel(command) ==
    [Call("slack", PostMessage) EXCEPT
        !.channel = command.channel_id, !.text = ReportText(command),
        !.extra = "not_claimed_attachment"]

ReportCall(command) ==
    [Call("slack", PostMessage) EXCEPT
        !.channel = MODERATOR_CHANNEL, !.text = ReportText(command),
        !.extra = "not_claimed_attachment"]

slash_report(i) ==
    /\ tasks[i].pc = "start"
    /\ tasks[i].command.command = "/report"
    /\ \E ok \in BOOLEAN :
         LET t == tasks[i]
             c == Reply(ReportCall(t.command), ok)
         IN Step(i, c, Query(t, c, Return(Sent(t, c))))

----------------------------------------------------------------------------
(* slash_repeat *)

\* get_slash_repeat_messages: one of two send methods and a payload
RepeatMethods == {PostMessage, PostEphemeral}

RepeatCall(command, method_type) ==
    [Call("slack", method_type) EXCEPT
        !.channel = command.channel_id,
        !.user = IF method_type = PostEphemeral THEN command.user_id ELSE "None",
        !.text = [tpl |-> "repeat", text |-> command.text]]

slash_repeat(i) ==
    /\ tasks[i].pc = "start"
    /\ tasks[i].command.command = "/repeat"
    /\ \E ok \in BOOLEAN, method_type \in RepeatMethods :
         LET t == tasks[i]
             c == Reply(RepeatCall(t.command, method_type), ok)
         IN Step(i, c, Query(t, c, Return(Sent(t, c))))

----------------------------------------------------------------------------
(* slash_ticket *)

UsersInfoCall(command) ==
    [Call("slack", UsersInfo) EXCEPT !.user = command.user_id]

DialogCall(command) ==
    [Call("slack", DialogOpen) EXCEPT
        !.extra = command.trigger_id,
        !.text = [tpl |-> "ticket_dialog", email |-> command.user_id,
                  text |-> command.text]]

slash_ticket_info(i) ==
    /\ tasks[i].pc = "start"
    /\ tasks[i].command.command = "/ticket"
    /\ \E ok \in BOOLEAN :
         LET t == tasks[i]
             c == Reply(UsersInfoCall(t.command), ok)
         IN Step(i, c, Query(t, c, [Sent(t, c) EXCEPT !.pc = "ticket_dialog"]))

slash_ticket_dialog(i) ==
    /\ tasks[i].pc = "ticket_dialog"
    /\ \E ok \in BOOLEAN :
         LET t == tasks[i]
             c == Reply(DialogCall(t.command), ok)
         IN Step(i, c, Query(t, c, Return(Sent(t, c))))

----------------------------------------------------------------------------
(* slash_here *)

\* the answers of the moderation service: the status and the length of the
\* body (the list of authorisations or, with an error status, what the
\* service says about the error)
ModsAnswers == {<<200, 0>>, <<200, 1>>, <<400, 1>>, <<500, 0>>}

ModsCall(command, answer) ==
    [Call("http", "GET /api/mods/") EXCEPT
        !.user = command.user_id, !.channel = command.channel_id,
        !.extra = "Authorization", !.status = answer[1], !.count = answer[2]]

\* a comparison that lets status 400 through
DeniedAbove(status, count) == status > ErrorStatus \/ count = 0

\* the two early returns: r.status >= 400, then not len(response)
Denied(status, count) == status >= ErrorStatus \/ count = 0

\* get_slash_here_messages reads the channel's roster from the platform and
\* returns the announcement and the member list
MembersCall(command) ==
    [Call("slack", ConversationsMembers) EXCEPT !.channel = command.channel_id]

HereMessage(command) ==
    [tpl |-> "here_message", user |-> command.user_id, text |-> command.text]

HereMemberList(command) ==
    [tpl |-> "here_member_list", channel |-> command.channel_id]

HereCall(command) ==
    [Call("slack", PostMessage) EXCEPT
        !.channel = command.channel_id, !.text = HereMessage(command)]

\* timestamp = response["ts"]
HereTimestamp(response) == response.ts

\* a reply threaded under the latest message of the platform
HereThreadCallLatest(command, timestamp) ==
    [Call("slack", PostMessage) EXCEPT
        !.channel = command.channel_id, !.text = HereMemberList(command),
        !.thread_ts = clock]

HereThreadCall(command, timestamp) ==
    [Call("slack", PostMessage) EXCEPT
        !.channel = command.channel_id, !.text = HereMemberList(command),
        !.thread_ts = timestamp]

slash_here_mods(i) ==
    /\ tasks[i].pc = "start"
    /\ tasks[i].command.command = "/here"
    /\ \E answer \in ModsAnswers :
         LET t == tasks[i]
             c == ModsCall(t.command, answer)
         IN Step(i, c, IF Denied(c.status, c.count)
                       THEN Return(Sent(t, c))
                       ELSE [Sent(t, c) EXCEPT !.pc = "here_messages"])

slash_here_messages(i) ==
    /\ tasks[i].pc = "here_messages"
    /\ \E ok \in BOOLEAN :
         LET t == tasks[i]
             c == Reply(MembersCall(t.command), ok)
         IN Step(i, c, Query(t, c, [Sent(t, c) EXCEPT !.pc = "here_post"]))

slash_here_post(i) ==
    /\ tasks[i].pc = "here_post"
    /\ \E ok \in BOOLEAN :
         LET t == tasks[i]
             c == Reply(HereCall(t.command), ok)
         IN Step(i, c, Query(t, c, [Sent(t, c) EXCEPT
                                       !.pc = "here_thread",
                                       !.loc = HereTimestamp(c)]))

slash_here_thread(i) ==
    /\ tasks[i].pc = "here_thread"
    /\ \E ok \in BOOLEAN :
         LET t == tasks[i]
             c == Reply(HereThreadCall(t.command, t.loc), ok)
         IN Step(i, c, Query(t, c, Return(Sent(t, c))))

----------------------------------------------------------------------------
(* slash_lunch *)

\* the answers of the restaurant search: the status and, on success, the
\* number of businesses in the body
YelpAnswers == {<<200, k>> : k \in 0..MaxResults} \cup {<<500, 0>>}

YelpCall(command, answer) ==
    [Call("http", "GET yelp") EXCEPT
        !.user = command.user_id, !.channel = command.channel_id,
        !.status = answer[1], !.count = answer[2]]

\* r.raise_for_status() raises ClientResponseError on a status of 400 or more
RaiseForStatus(status) == status >= 400

\* LunchCommand.select_random_lunch: one of the businesses, an error on none
LunchPicks(count) == 1..count

LunchCall(command, pick) ==
    [Call("slack", PostEphemeral) EXCEPT
        !.user = command.user_id, !.channel = command.channel_id,
        !.text = [tpl |-> "lunch", pick |-> pick]]

\* the request, raise_for_status, the body and the selection
slash_lunch_search(i) ==
    /\ tasks[i].pc = "start"
    /\ tasks[i].command.command = "/lunch"
    /\ \E answer \in YelpAnswers :
         LET t == tasks[i]
             c == YelpCall(t.command, answer)
         IN Step(i, c,
                 IF RaiseForStatus(c.status)
                 THEN Raise(Sent(t, c), "ClientResponseError")
                 ELSE IF LunchPicks(c.count) = {}
                      THEN Raise(Sent(t, c), "EmptyResultError")
                      ELSE [Sent(t, c) EXCEPT !.pc = "lunch_post",
                                              !.loc = c.count])

slash_lunch_post(i) ==
    /\ tasks[i].pc = "lunch_post"
    /\ \E ok \in BOOLEAN, pick \in LunchPicks(tasks[i].loc) :
         LET t == tasks[i]
             c == Reply(LunchCall(t.command, pick), ok)
         IN Step(i, c, Query(t, c, Return(Sent(t, c))))

----------------------------------------------------------------------------
(* slash_mentor *)

MentorTables == <<"Services", "Mentors", "Skillsets">>

AirtableCall(table) ==
    [Call("airtable", "get_all_records") EXCEPT !.extra = table]

MentorCall(command) ==
    [Call("slack", PostMessage) EXCEPT
        !.channel = command.user_id, !.extra = "mentor_request_attachments"]

\* the three reads, one after the other; loc counts the tables read
slash_mentor_records(i) ==
    /\ tasks[i].pc = "start"
    /\ tasks[i].command.command = "/mentor"
    /\ tasks[i].loc < Len(MentorTables)
    /\ \E ok \in BOOLEAN :
         LET t == tasks[i]
             c == [AirtableCall(MentorTables[t.loc + 1]) EXCEPT !.ok = ok]
         IN Step(i, c, IF ok THEN [Sent(t, c) EXCEPT !.loc = @ + 1]
                       ELSE Raise(Sent(t, c), "AirtableError"))

slash_mentor_post(i) ==
    /\ tasks[i].pc = "start"
    /\ tasks[i].command.command = "/mentor"
    /\ tasks[i].loc = Len(MentorTables)
    /\ \E ok \in BOOLEAN :
         LET t == tasks[i]
             c == Reply(MentorCall(t.command), ok)
         IN Step(i, c, Query(t, c, Return(Sent(t, c))))

----------------------------------------------------------------------------
(* slash_roll *)

RollHelpCall(command) ==
    [Call("slack", PostEphemeral) EXCEPT
        !.user = command.user_id, !.channel = command.channel_id,
        !.text = [tpl |-> "roll_help"]]

RollText(slack_id, numdice, typedice, dice) ==
    [tpl |-> "rolled", user |-> slack_id, numdice |-> numdice,
     typedice |-> typedice, dice |-> dice]

RollCall(command, numdice, typedice, dice) ==
    [Call("slack", PostMessage) EXCEPT
        !.channel = command.channel_id,
        !.text = RollText(command.user_id, numdice, typedice, dice)]

\* except ValueError: the help message, then return
slash_roll_help(i) ==
    /\ tasks[i].pc = "start"
    /\ tasks[i].command.command = "/roll"
    /\ ~ParseRoll(tasks[i].command.text).ok
    /\ \E ok \in BOOLEAN :
         LET t == tasks[i]
             c == Reply(RollHelpCall(t.command), ok)
         IN Step(i, c, Query(t, c, Return(Sent(t, c))))

\* the dice and the message
slash_roll_dice(i) ==
    /\ tasks[i].pc = "start"
    /\ tasks[i].command.command = "/roll"
    /\ ParseRoll(tasks[i].command.text).ok
    /\ LET t == tasks[i]
           p == ParseRoll(t.command.text)
       IN \E ok \in BOOLEAN, dice \in DiceLists(p.numdice, p.typedice) :
            LET c == Reply(RollCall(t.command, p.numdice, p.typedice, dice), ok)
            IN Step(i, c, Query(t, c, Return(Sent(t, c))))

----------------------------------------------------------------------------
(* The framework: one task per incoming command *)

Receive(command) ==
    /\ tasks' = Append(tasks, NewTask(command))
    /\ UNCHANGED clock

\* Spec: every handler, from one user in one channel; /roll with a text it
\* rejects and one it accepts, the others with a text they pass on unread
Inputs ==
    {<<name, <<"h", "i">>>> : name \in Handlers \ {"/roll"}}
        \cup {<<"/roll", <<>>>>, <<"/roll", <<"1", "d", "1">>>>}

Dispatch ==
    /\ Len(tasks) < MaxInv
    /\ \E in \in Inputs : Receive(Command(in[1], "U1", "C1", in[2]))

\* SpecConc: /here and /report, from the moderator channel or another one,
\* with the same text or different ones
ConcTexts == {<<"a">>, <<"b">>}

ConcInputs ==
    {<<"/report", channel_id, text>> :
        channel_id \in {"C1", MODERATOR_CHANNEL}, text \in ConcTexts}
        \cup {<<"/here", "C1", <<"a">>>>}

DispatchConc ==
    /\ Len(tasks) < MaxConc
    /\ \E in \in ConcInputs : Receive(Command(in[1], "U1", in[2], in[3]))

\* SpecRoll: one /roll with any text over Alphabet up to MaxLen characters,
\* or one of the texts at the limits of the accepted ranges
Alphabet == {"1", "2", "d", "D", "x", "-"}

LimitTexts ==
    {<<"0", "d", "5">>, <<"1", "1", "d", "5">>, <<"3", "d", "2", "1">>,
     <<"a", "b", "c">>, <<"3", "x", "5">>, <<"1", "d", "0">>,
     <<"1", "0", "d", "1">>, <<"1", "D", "2", "0">>, <<"2", "d", "6">>,
     <<"0", "2", "d", "0", "3">>}

RollTexts == UNION {[1..n -> Alphabet] : n \in 0..MaxLen} \cup LimitTexts

DispatchRoll ==
    /\ Len(tasks) < 1
    /\ \E text \in RollTexts : Receive(Command("/roll", "U1", "C1", text))

Init ==
    /\ tasks = <<>>
    /\ clock = 0

Next ==
    \/ Dispatch
    \/ \E i \in 1..Len(tasks) : slash_report(i)
    \/ \E i \in 1..Len(tasks) : slash_repeat(i)
    \/ \E i \in 1..Len(tasks) : slash_ticket_info(i)
    \/ \E i \in 1..Len(tasks) : slash_ticket_dialog(i)
    \/ \E i \in 1..Len(tasks) : slash_here_mods(i)
    \/ \E i \in 1..Len(tasks) : slash_here_messages(i)
    \/ \E i \in 1..Len(tasks) : slash_here_post(i)
    \/ \E i \in 1..Len(tasks) : slash_here_thread(i)
    \/ \E i \in 1..Len(tasks) : slash_lunch_search(i)
    \/ \E i \in 1..Len(tasks) : slash_lunch_post(i)
    \/ \E i \in 1..Len(tasks) : slash_mentor_records(i)
    \/ \E i \in 1..Len(tasks) : slash_mentor_post(i)
    \/ \E i \in 1..Len(tasks) : slash_roll_help(i)
    \/ \E i \in 1..Len(tasks) : slash_roll_dice(i)
    \/ \E i \in 1..Len(tasks) : catch_slack_error(i)

Spec == Init /\ [][Next]_vars

NextConc ==
    \/ DispatchConc
    \/ \E i \in 1..Len(tasks) : slash_report(i)
    \/ \E i \in 1..Len(tasks) : slash_here_mods(i)
    \/ \E i \in 1..Len(tasks) : slash_here_messages(i)
    \/ \E i \in 1..Len(tasks) : slash_here_post(i)
    \/ \E i \in 1..Len(tasks) : slash_here_thread(i)
    \/ \E i \in 1..Len(tasks) : catch_slack_error(i)

SpecConc == Init /\ [][NextConc]_vars

NextRoll ==
    \/ DispatchRoll
    \/ \E i \in 1..Len(tasks) : slash_roll_help(i)
    \/ \E i \in 1..Len(tasks) : slash_roll_dice(i)
    \/ \E i \in 1..Len(tasks) : catch_slack_error(i)

SpecRoll == Init /\ [][NextRoll]_vars

----------------------------------------------------------------------------
(* What the properties speak of *)

TaskIds == 1..Len(tasks)

CallIds(t) == 1..Len(t.calls)

Done(t) == t.pc = "done"

\* a query the chat platform answered with SlackAPIError
Failed(c) == c.api = "slack" /\ ~c.ok

IsFallback(c) == c.text.tpl = "could_not_post"

IsRollHelp(c) == c.text.tpl = "roll_help"

\* the fallback of the invocation of command: ephemeral, to the invoking
\* user, naming the command and the channel it was given in
NamesFallback(c, command) ==
    /\ IsFallback(c)
    /\ c.method = PostEphemeral
    /\ c.user = command.user_id
    /\ c.text.command = command.command
    /\ c.text.channel = command.channel_id

\* what a user gets to see: a message or dialog the platform accepted
Visible(c) ==
    c.api = "slack" /\ c.ok /\ c.method \in {PostMessage, PostEphemeral, DialogOpen}

Fallbacks(t) == {k \in CallIds(t) : Visible(t.calls[k]) /\ IsFallback(t.calls[k])}

Helps(t) == {k \in CallIds(t) : Visible(t.calls[k]) /\ IsRollHelp(t.calls[k])}

Intended(t) ==
    {k \in CallIds(t) :
        Visible(t.calls[k]) /\ ~IsFallback(t.calls[k]) /\ ~IsRollHelp(t.calls[k])}

\* /here answered with an error status or an empty list
HereDenial(t) ==
    /\ t.command.command = "/here"
    /\ Len(t.calls) >= 1
    /\ t.calls[1].status >= 400 \/ t.calls[1].count = 0

\* a /roll text of the form NdS: one d, in either case, between two decimal
\* numerals, N in 1..10 and S in 1..20
IsNumeral(s) == s # <<>> /\ \A k \in 1..Len(s) : s[k] \in Digits

\* where the text holds a d, in either case
Separators(text) == {k \in 1..Len(text) : text[k] \in {"d", "D"}}

RequestedDice(text) ==
    Number(SubSeq(text, 1, (CHOOSE k \in Separators(text) : TRUE) - 1))

RequestedSides(text) ==
    Number(SubSeq(text, (CHOOSE k \in Separators(text) : TRUE) + 1, Len(text)))

Accepted(text) ==
    /\ Cardinality(Separators(text)) = 1
    /\ LET k == CHOOSE j \in Separators(text) : TRUE
       IN /\ IsNumeral(SubSeq(text, 1, k - 1))
          /\ IsNumeral(SubSeq(text, k + 1, Len(text)))
    /\ RequestedDice(text) \in 1..10
    /\ RequestedSides(text) \in 1..20

\* the messages a handler is to send when nothing fails
IntendedCount(t) ==
    CASE t.command.command = "/here" -> IF HereDenial(t) THEN 0 ELSE 2
      [] t.command.command = "/roll" -> IF Accepted(t.command.text) THEN 1 ELSE 0
      [] OTHER -> 1

----------------------------------------------------------------------------
(* C1, as stated: whenever a query of an invocation failed with            *)
(* SlackAPIError, the finished invocation has delivered exactly one        *)
(* fallback message naming its command and channel to the invoking user,   *)
(* and no exception left the wrapper - also when the failing query is the  *)
(* fallback post.                                                          *)
C1_AlwaysOneFallbackNoEscape ==
    \A i \in TaskIds :
        LET t == tasks[i] IN
        (Done(t) /\ \E k \in CallIds(t) : Failed(t.calls[k])) =>
            /\ Cardinality(Fallbacks(t)) = 1
            /\ \A k \in Fallbacks(t) : NamesFallback(t.calls[k], t.command)
            /\ t.result = "returned"

(* C1, amended: whenever a query made by the handler failed with           *)
(* SlackAPIError, the wrapper issues exactly one fallback post, ephemeral, *)
(* to the invoking user, naming the command and the channel.  If the       *)
(* platform accepts it, the invocation returns and that one message is     *)
(* delivered; if the fallback post fails too, its SlackAPIError leaves the *)
(* wrapper and no fallback message is delivered.                           *)
C1_OneFallbackIssued ==
    \A i \in TaskIds :
        LET t == tasks[i]
            last == t.calls[Len(t.calls)]
            issued == {k \in CallIds(t) : IsFallback(t.calls[k])}
        IN
        (Done(t) /\ \E k \in CallIds(t) : Failed(t.calls[k])) =>
            /\ issued = {Len(t.calls)}
            /\ NamesFallback(last, t.command)
            /\ Failed(t.calls[Len(t.calls) - 1])
            /\ last.ok => t.result = "returned" /\ Cardinality(Fallbacks(t)) = 1
            /\ ~last.ok => t.result = "SlackAPIError" /\ Fallbacks(t) = {}

\* a /here whose threaded reply failed and whose fallback was delivered
C1_Witness ==
    \E i \in TaskIds :
        LET t == tasks[i] IN
        /\ Done(t) /\ t.command.command = "/here" /\ Len(t.calls) = 5
        /\ Failed(t.calls[4]) /\ t.calls[4].thread_ts > 0
        /\ Fallbacks(t) = {5} /\ t.result = "returned"

----------------------------------------------------------------------------
(* C2, as stated: an invocation that has completed (returned) has produced *)
(* either exactly its intended messages and no fallback, or exactly one    *)
(* fallback or help message and none of the intended ones; only the /here  *)
(* denial ends with nothing visible.  So /here never ends with its first   *)
(* announcement posted and a fallback.                                     *)
C2_AllOrOneFallback ==
    \A i \in TaskIds :
        LET t == tasks[i]
            ni == Cardinality(Intended(t))
            nf == Cardinality(Fallbacks(t)) + Cardinality(Helps(t))
        IN (Done(t) /\ t.result = "returned") =>
            \/ ni = IntendedCount(t) /\ ni > 0 /\ nf = 0
            \/ ni = 0 /\ nf = 1
            \/ HereDenial(t) /\ ni = 0 /\ nf = 0

(* C2, amended: an invocation that returns has produced either exactly its *)
(* intended messages and no fallback, or exactly one fallback or help      *)
(* message and none of the intended ones, except that /here may by then    *)
(* have posted its first announcement (its second post failed); or it is   *)
(* the /here denial.  An invocation that ends with nothing visible is the  *)
(* /here denial or ended by raising: an auxiliary-service error, or the    *)
(* SlackAPIError of the fallback post.                                     *)
C2_ReturnedAllOrFallback ==
    \A i \in TaskIds :
        LET t == tasks[i]
            ni == Cardinality(Intended(t))
            nf == Cardinality(Fallbacks(t)) + Cardinality(Helps(t))
        IN
        /\ (Done(t) /\ t.result = "returned") =>
            \/ ni = IntendedCount(t) /\ ni > 0 /\ nf = 0
            \/ ni = 0 /\ nf = 1
            \/ /\ t.command.command = "/here"
               /\ nf = 1 /\ Intended(t) = {3}
               /\ t.calls[3].text.tpl = "here_message"
               /\ Failed(t.calls[4])
            \/ HereDenial(t) /\ ni = 0 /\ nf = 0
        /\ (Done(t) /\ ni = 0 /\ nf = 0) =>
            \/ HereDenial(t)
            \/ t.result \in {"SlackAPIError", "ClientResponseError",
                             "EmptyResultError", "AirtableError"}

\* a /here that returned with its announcement posted and one fallback
C2_Witness ==
    \E i \in TaskIds :
        LET t == tasks[i] IN
        /\ Done(t) /\ t.result = "returned" /\ t.command.command = "/here"
        /\ Intended(t) = {3} /\ Fallbacks(t) = {5}

----------------------------------------------------------------------------
(* C6: when the moderation service answers /here with a status of 400 or   *)
(* more, or with an empty list, the invocation makes no chat-platform call *)
(* at all - no post, no ephemeral message, no fallback - and returns.      *)
C6_DenialIsSilent ==
    \A i \in TaskIds :
        LET t == tasks[i] IN
        (/\ t.command.command = "/here"
         /\ Len(t.calls) >= 1
         /\ t.calls[1].status >= 400 \/ t.calls[1].count = 0) =>
            /\ Len(t.calls) = 1
            /\ t.calls[1].api = "http"
            /\ Done(t) /\ t.result = "returned"

\* one /here denied by status and one denied by an empty list
C6_Witness ==
    \E i, j \in TaskIds :
        /\ tasks[i].command.command = "/here" /\ tasks[j].command.command = "/here"
        /\ Len(tasks[i].calls) = 1 /\ Len(tasks[j].calls) = 1
        /\ tasks[i].calls[1].status >= 400
        /\ tasks[j].calls[1].status < 400 /\ tasks[j].calls[1].count = 0
        /\ Done(tasks[i]) /\ Done(tasks[j])

----------------------------------------------------------------------------
(* C8: when the restaurant search answers /lunch with a non-success        *)
(* status, the error raise_for_status raises leaves the wrapped handler:   *)
(* the invocation ends with that error, having posted no restaurant        *)
(* message and no fallback.                                                *)
C8_LunchErrorEscapes ==
    \A i \in TaskIds :
        LET t == tasks[i] IN
        (/\ t.command.command = "/lunch"
         /\ Len(t.calls) >= 1
         /\ t.calls[1].status >= 400) =>
            /\ Done(t) /\ t.result = "ClientResponseError"
            /\ \A k \in CallIds(t) : t.calls[k].api # "slack"

C8_Witness ==
    \E i \in TaskIds :
        LET t == tasks[i] IN
        /\ t.command.command = "/lunch" /\ Done(t)
        /\ Len(t.calls) = 1 /\ t.calls[1].status = 500
        /\ t.result = "ClientResponseError"

----------------------------------------------------------------------------
(* C10, as stated: every invocation of every handler, the wrapper's        *)
(* fallback included, makes at most two external calls.                    *)
C10_AtMostTwoCalls ==
    \A i \in TaskIds : Len(tasks[i].calls) <= 2

\* the external calls one invocation of a handler can make
CallLimit(name) ==
    CASE name \in {"/report", "/repeat", "/roll"} -> 2
      [] name \in {"/lunch", "/ticket"} -> 3
      [] name \in {"/here", "/mentor"} -> 5

(* C10, amended: every invocation makes at most five external calls, one   *)
(* after the other: /report, /repeat and /roll at most two (the post and   *)
(* the fallback), /lunch and /ticket at most three, /here and /mentor at   *)
(* most five.  An invocation starts from its command alone: what an        *)
(* earlier or concurrent invocation did changes none of its calls but the  *)
(* timestamps the platform hands out.                                      *)
C10_AtMostFiveCalls ==
    \A i \in TaskIds :
        LET t == tasks[i] IN
        /\ Len(t.calls) <= CallLimit(t.command.command)
        /\ \A j \in TaskIds :
             (/\ tasks[j].command = t.command
              /\ Len(tasks[j].calls) >= 1 /\ Len(t.calls) >= 1) =>
                 /\ tasks[j].calls[1].api = t.calls[1].api
                 /\ tasks[j].calls[1].channel = t.calls[1].channel

\* a /mentor and a /here with five calls each
C10_Witness ==
    \E i, j \in TaskIds :
        /\ tasks[i].command.command = "/mentor" /\ Len(tasks[i].calls) = 5
        /\ tasks[j].command.command = "/here" /\ Len(tasks[j].calls) = 5
        /\ Done(tasks[i]) /\ Done(tasks[j])

----------------------------------------------------------------------------
(* C7: an authorised /here whose posts succeed posts exactly two messages  *)
(* to the invoking channel, the announcement and then the member list; the *)
(* member list is posted only after the announcement was answered and      *)
(* carries as thread reference the timestamp the platform returned for the *)
(* announcement of the same invocation, whatever other invocations post in *)
(* between; when the announcement fails the member list is never posted.   *)
C7_ThreadedAfterFirst ==
    \A i \in TaskIds :
        LET t == tasks[i]
            posts == {k \in CallIds(t) : t.calls[k].method = PostMessage}
        IN
        t.command.command = "/here" =>
            /\ \A k \in posts :
                 /\ t.calls[k].channel = t.command.channel_id
                 /\ t.calls[k].thread_ts > 0 =>
                      /\ k - 1 \in posts
                      /\ t.calls[k - 1].ok
                      /\ t.calls[k - 1].thread_ts = 0
                      /\ t.calls[k - 1].text.tpl = "here_message"
                      /\ t.calls[k].text.tpl = "here_member_list"
                      /\ t.calls[k].thread_ts = t.calls[k - 1].ts
                      /\ \A j \in TaskIds \ {i} : \A m \in CallIds(tasks[j]) :
                           tasks[j].calls[m].ts # t.calls[k].thread_ts
            /\ Cardinality(posts) <= 2
            /\ (\E k \in posts : ~t.calls[k].ok /\ t.calls[k].thread_ts = 0) =>
                   Cardinality(posts) = 1
            /\ (Done(t) /\ ~HereDenial(t) /\ \A k \in CallIds(t) : t.calls[k].ok) =>
                   /\ Cardinality(posts) = 2
                   /\ \E k \in posts : t.calls[k].thread_ts > 0
                   /\ t.result = "returned"

\* two /here that both finished, the second one's announcement posted
\* between the first one's announcement and its member list
C7_Witness ==
    \E i, j \in TaskIds :
        /\ i # j
        /\ tasks[i].command.command = "/here" /\ tasks[j].command.command = "/here"
        /\ tasks[i].result = "returned" /\ tasks[j].result = "returned"
        /\ Len(tasks[i].calls) = 4 /\ Len(tasks[j].calls) = 4
        /\ tasks[i].calls[4].ok /\ tasks[j].calls[4].ok
        /\ tasks[i].calls[3].ts < tasks[j].calls[3].ts
        /\ tasks[j].calls[3].ts < tasks[i].calls[4].ts

----------------------------------------------------------------------------
----------------------------------------------------------------------------
(* C3: for a /roll text that is not NdS with N in 1..10 and S in 1..20     *)
(* (no d, more than one d, a part that is empty or no integer, N or S out  *)
(* of range) the handler issues exactly one post, the ephemeral usage help *)
(* to the invoking user, and no dice message; once the platform has        *)
(* accepted the help the invocation has returned, with nothing raised and  *)
(* nothing else sent.  (A help post the platform refuses is the wrapper's  *)
(* case, C1.)                                                              *)
C3_MalformedGetsHelp ==
    \A i \in TaskIds :
        LET t == tasks[i] IN
        (/\ t.command.command = "/roll"
         /\ t.pc # "start"
         /\ ~Accepted(t.command.text)) =>
            /\ t.calls[1].method = PostEphemeral
            /\ IsRollHelp(t.calls[1])
            /\ t.calls[1].user = t.command.user_id
            /\ t.calls[1].channel = t.command.channel_id
            /\ \A k \in CallIds(t) :
                 /\ t.calls[k].method # PostMessage
                 /\ t.calls[k].text.tpl # "rolled"
                 /\ IsRollHelp(t.calls[k]) => k = 1
            /\ t.result \in {"running", "returned", "SlackAPIError"}
            /\ t.calls[1].ok =>
                 Done(t) /\ t.result = "returned" /\ Len(t.calls) = 1

\* "3d21" answered with the help, and nothing else
C3_Witness ==
    \E i \in TaskIds :
        LET t == tasks[i] IN
        /\ t.command.command = "/roll"
        /\ t.command.text = <<"3", "d", "2", "1">>
        /\ Done(t) /\ t.result = "returned"
        /\ Helps(t) = {1} /\ Len(t.calls) = 1

----------------------------------------------------------------------------
(* C4: for a /roll text NdS, d in either case, N in 1..10 and S in 1..20,  *)
(* the handler issues exactly one post: a message to the invoking channel, *)
(* not ephemeral, that mentions the invoking user, N and S and lists       *)
(* exactly N rolled integers; it sends no help message.                    *)
C4_WellFormedRolls ==
    \A i \in TaskIds :
        LET t == tasks[i] IN
        (/\ t.command.command = "/roll"
         /\ t.pc # "start"
         /\ Accepted(t.command.text)) =>
            /\ t.calls[1].method = PostMessage
            /\ t.calls[1].channel = t.command.channel_id
            /\ t.calls[1].user = "None"
            /\ t.calls[1].text.tpl = "rolled"
            /\ t.calls[1].text.user = t.command.user_id
            /\ t.calls[1].text.numdice = RequestedDice(t.command.text)
            /\ t.calls[1].text.typedice = RequestedSides(t.command.text)
            /\ Len(t.calls[1].text.dice) = RequestedDice(t.command.text)
            /\ \A d \in 1..Len(t.calls[1].text.dice) :
                 t.calls[1].text.dice[d] \in Int
            /\ \A k \in CallIds(t) :
                 /\ ~IsRollHelp(t.calls[k])
                 /\ t.calls[k].method = PostMessage => k = 1
            /\ t.calls[1].ok =>
                 Done(t) /\ t.result = "returned" /\ Len(t.calls) = 1

\* "10d1" rolled and posted: ten values
C4_Witness ==
    \E i \in TaskIds :
        LET t == tasks[i] IN
        /\ t.command.text = <<"1", "0", "d", "1">>
        /\ Done(t) /\ t.result = "returned"
        /\ Len(t.calls) = 1
        /\ Len(t.calls[1].text.dice) = 10

----------------------------------------------------------------------------
(* C5: every value a /roll NdS lists lies in 1..S; no value above S ever   *)
(* appears in a posted message.                                            *)
C5_RollsWithinSides ==
    \A i \in TaskIds :
        LET t == tasks[i] IN
        \A k \in CallIds(t) :
            (t.calls[k].ok /\ t.calls[k].text.tpl = "rolled") =>
                \A d \in 1..Len(t.calls[k].text.dice) :
                    /\ t.calls[k].text.dice[d] >= 1
                    /\ t.calls[k].text.dice[d] <= t.calls[k].text.typedice

====
